---- MODULE Spec2Model ----
(***************************************************************************)
(* A model of ops/dff_exporter.py (DragonFF): the class-level state of     *)
(* dff_exporter, the scene walker (export_dff / export_objects), the frame *)
(* builder (create_frame / export_armature), the geometry builder          *)
(* (populate_geometry_with_mesh_data, cleanup_duplicate_verts), the        *)
(* material list (generate_material_list and material_helper's plugin      *)
(* readers) and the UV animation reader (get_uv_animation).                *)
(*                                                                         *)
(* Conventions.  Python None is 0 for an object, a collection or a         *)
(* material, and -1 for a clump key.  List indices stored by the program   *)
(* (frame.parent, atomic.frame, face verts) keep their 0-based values; a   *)
(* Python list is a TLA+ sequence, so list position p is element p + 1.    *)
(* A dict is a function whose DOMAIN is its key set.  A Python exception   *)
(* is the flag exc of the machine record: once set, every later statement  *)
(* of the call is skipped and the call ends.                               *)
(***************************************************************************)
EXTENDS Integers, Sequences, FiniteSets, TLC

\* ---------------------------------------------------------------- bounds
NumObjs  == 2   \* objects of the scene
NumColls == 2   \* collections: the children of the root, then the root itself
MaxClump == 1   \* clump keys are 0..MaxClump
NumBones == 2   \* bones of every armature (a chain: bone b's parent is b - 1)
MaxCalls == 2   \* export calls made in one run

Objs  == 1..NumObjs
Colls == 1..NumColls
Keys  == 0..MaxClump
Bones == 1..NumBones
Types == {"MESH", "EMPTY", "ARMATURE"}

VARIABLES
    scene,    \* the host scene: object -> [type, parent, clump, coll, sel, mats]
    self,     \* the class-level fields of dff_exporter (lines 276-287)
    pc,       \* "idle"; "batch" inside export_dff's loop in mass_export mode;
              \* "uv_read" once get_uv_animation has returned; "mat_built" once
              \* generate_material_list has
    ci,       \* the collection the loop of export_dff is at
    ncalls,   \* export calls made so far
    world,    \* what the current call did outside the exporter: files, export_col calls
    verts,    \* cleanup_duplicate_verts: the vertex list
    faces,    \* cleanup_duplicate_verts: the face list
    corners,  \* the per-corner data collected by populate_geometry_with_mesh_data
    gstage,   \* how many times cleanup_duplicate_verts has run
    material, \* get_uv_animation: the material read
    uvanim,   \* get_uv_animation: the track returned (a sequence of 0 or 1 tracks)
    mesh,     \* populate_geometry_with_mesh_data: the evaluated mesh and obj.dff's flags
    geometry, \* populate_geometry_with_mesh_data: the dff.Geometry filled
    dff_material \* generate_material_list: the dff.Material built from `material`
              \* (a sequence of 0 or 1 materials)

vars == <<scene, self, pc, ci, ncalls, world, verts, faces, corners, gstage, material, uvanim,
          mesh, geometry, dff_material>>

EmptyDict == [k \in {} |-> 0]

\* ---------------------------------------------------------------- gtaLib records
\* dff.Clump(): the four lists of a clump
NewClump == [frame_list |-> <<>>, geometry_list |-> <<>>, atomic_list |-> <<>>,
             collisions |-> <<>>]

\* dff.dff(): the container that is written
NewDff == [clumps |-> <<>>, uvanim_dict |-> <<>>]

\* dff.UVAnim(): an empty track
NewUVAnim == [name |-> "", duration |-> 0, frames |-> <<>>]

\* ---------------------------------------------------------------- class state
\* dff_exporter's class attributes as the class statement leaves them.  dff is
\* None there and path is unset; both are assigned before they are read.
ClassInit ==
    [selected |-> FALSE, mass_export |-> FALSE, file_name |-> "", path |-> "",
     dff |-> NewDff, current_clump |-> -1, clumps |-> EmptyDict,
     frames |-> EmptyDict, bones |-> EmptyDict, parent_queue |-> EmptyDict,
     collection |-> 0, export_coll |-> FALSE]

\* What a call has done so far: files written, export_col calls, the order of
\* the steps of export_objects, and which call / unit is running (call, unit
\* and by-fields derived from them are history, not program state).
WorldInit ==
    [files |-> <<>>, col |-> <<>>, events |-> <<>>, raised |-> FALSE,
     call |-> 0, unit |-> 0]

Event(ev, arg) == [ev |-> ev, arg |-> arg]

Log(m, ev, arg) == [m EXCEPT !.world.events = Append(@, Event(ev, arg))]

\* ---------------------------------------------------------------- create_frame
\* lines 312-315: every queued child of this name is pointed at the new frame
ScanParentQueue(frame_list, parent_queue, name, frame_index) ==
    [p \in DOMAIN frame_list |->
        IF \E n \in DOMAIN parent_queue : n = name /\ parent_queue[n] = p - 1
        THEN [frame_list[p] EXCEPT !.parent = frame_index]
        ELSE frame_list[p]]

\* The frame create_frame builds (lines 302-326).  entry is the registry entry
\* the parent index is read from (NoEntry: no lookup, the parent stays -1).
MakeFrame(m, name, is_bone, entry) ==
    [name |-> name, is_bone |-> is_bone, parent |-> entry.index,
     call |-> m.world.call, unit |-> m.world.unit,
     pcall |-> entry.call, punit |-> entry.unit, bone_data |-> FALSE]

NoEntry == [index |-> -1, call |-> 0, unit |-> 0]

\* the clump the dispatch loop selected
CurrentFrames(m) == m.self.clumps[m.self.current_clump].frame_list

\* line 328: id_array = self.bones if is_bone else self.frames
id_array(m, is_bone) == IF is_bone THEN m.self.bones ELSE m.self.frames

\* line 334: id_array[obj.name] = frame_index
register(m, name, is_bone, entry) ==
    IF is_bone THEN [m EXCEPT !.self.bones = (name :> entry) @@ @]
    ELSE [m EXCEPT !.self.frames = (name :> entry) @@ @]

\* frame_list.append(frame), lines 337, 786 and 800
append_frame(m, frame) ==
    [m EXCEPT !.self.clumps[m.self.current_clump].frame_list = Append(@, frame)]

\* lines 334-339
finish_frame(m, frame, append) ==
    [m |-> IF append THEN append_frame(m, frame) ELSE m, frame |-> frame]

\* create_frame(obj, append, set_parent): name is obj.name, parent is
\* obj.parent's name (0: obj.parent is None), is_bone is type(obj) is Bone.
\* The result is the machine and the frame returned.  A parent that is not
\* in the registry makes id_array[obj.parent.name] raise KeyError.
create_frame(m, name, parent, is_bone, append, set_parent) ==
    IF set_parent /\ parent # 0 /\ parent \notin DOMAIN id_array(m, is_bone)
    THEN [m |-> [m EXCEPT !.exc = TRUE,
                          !.self.clumps[m.self.current_clump].frame_list =
                              ScanParentQueue(@, m.self.parent_queue, name, Len(@))],
          frame |-> MakeFrame(m, name, is_bone, NoEntry)]
    ELSE finish_frame(
             register([m EXCEPT !.self.clumps[m.self.current_clump].frame_list =
                                  ScanParentQueue(@, m.self.parent_queue, name, Len(@))],
                      name, is_bone,
                      [index |-> Len(CurrentFrames(m)), call |-> m.world.call,
                       unit |-> m.world.unit]),
             MakeFrame(m, name, is_bone,
                       IF set_parent /\ parent # 0 THEN id_array(m, is_bone)[parent]
                       ELSE NoEntry),
             append)

\* ---------------------------------------------------------------- materials
\* material.dff's export flags of the optional plugins, all off
NoFX ==
    [export_bump_map |-> FALSE, export_env_map |-> FALSE, export_specular |-> FALSE,
     export_reflection |-> FALSE]

\* bpy.data.materials of the scenes drawn: 1 and 2 are two materials whose UV
\* animations carry the same name, 3 animates under another name, 4 exports
\* no animation.  A material slot holds an index of this table, or 0 (None).
MatTable ==
    << [export_animation |-> TRUE, animation_name |-> "a", principled |-> TRUE,
        has_mapping_node |-> TRUE, has_anim_data |-> FALSE, fcurves |-> <<>>,
        dff |-> NoFX, normalmap_image |-> FALSE, user_data |-> FALSE],
       [export_animation |-> TRUE, animation_name |-> "a", principled |-> TRUE,
        has_mapping_node |-> TRUE, has_anim_data |-> FALSE, fcurves |-> <<>>,
        dff |-> NoFX, normalmap_image |-> FALSE, user_data |-> FALSE],
       [export_animation |-> TRUE, animation_name |-> "b", principled |-> TRUE,
        has_mapping_node |-> TRUE, has_anim_data |-> FALSE, fcurves |-> <<>>,
        dff |-> NoFX, normalmap_image |-> FALSE, user_data |-> FALSE],
       [export_animation |-> FALSE, animation_name |-> "a", principled |-> TRUE,
        has_mapping_node |-> TRUE, has_anim_data |-> FALSE, fcurves |-> <<>>,
        dff |-> NoFX, normalmap_image |-> FALSE, user_data |-> FALSE] >>

\* lines 213-216: the first slot of the 6-element uv array a data path writes
\* (0: the path is not in uv_offset).  "loc" is inputs[1], "scale" inputs[3].
uv_offset(data_path) ==
    CASE data_path = "loc"   -> 4
      [] data_path = "scale" -> 1
      [] OTHER               -> 0

\* lines 225-236, one keyframe: i is the keyframe's position in its curve.
\* Times are kept as frame numbers, that is in units of 1/fps seconds (fps is
\* one positive number for the whole call, so order and maximum are those of
\* frame.co[0] / fps).
uv_keyframe(anim, curve, i) ==
    LET kf     == curve.keyframe_points[i + 1]
        frames == IF Len(anim.frames) <= i
                  THEN Append(anim.frames, [time |-> 0, uv |-> <<0, 0, 0, 0, 0, 0>>,
                                            prev |-> i - 1])
                  ELSE anim.frames
        slot   == uv_offset(curve.data_path) + curve.array_index + 1
        frame  == [frames[i + 1] EXCEPT !.uv[slot] = kf.co[2], !.time = kf.co[1]]
    IN  [anim EXCEPT !.frames   = [frames EXCEPT ![i + 1] = frame],
                     !.duration = IF frame.time > @ THEN frame.time ELSE @]

RECURSIVE uv_keyframes(_, _, _)
uv_keyframes(anim, curve, i) ==
    IF i >= Len(curve.keyframe_points) THEN anim
    ELSE uv_keyframes(uv_keyframe(anim, curve, i), curve, i + 1)

\* lines 206-236: the loop over the action's curves
RECURSIVE uv_curves(_, _, _)
uv_curves(anim, fcurves, c) ==
    IF c > Len(fcurves) THEN anim
    ELSE LET curve == fcurves[c]
         IN  IF curve.array_index > 1 \/ uv_offset(curve.data_path) = 0
             THEN uv_curves(anim, fcurves, c + 1)
             ELSE uv_curves(uv_keyframes(anim, curve, 0), fcurves, c + 1)

\* material_helper.get_uv_animation: <<>> is None, <<anim>> the track returned
get_uv_animation(mat) ==
    IF ~mat.export_animation THEN <<>>
    ELSE IF mat.principled /\ mat.has_mapping_node
         THEN LET anim == [NewUVAnim EXCEPT !.name = mat.animation_name]
              IN  IF mat.has_anim_data THEN << uv_curves(anim, mat.fcurves, 1) >>
                  ELSE << anim >>
         ELSE <<>>

\* A helper's result is <<>> for None and <<plugin>> otherwise; a plugin is
\* kept as the name of its class.
\* a get_normal_map that looks at the flag alone
get_normal_map_flag_only(mat) ==
    IF ~mat.dff.export_bump_map THEN <<>> ELSE <<"BumpMapFX">>

\* material_helper.get_normal_map, lines 102-134: the plugin needs the
\* principled wrapper and an image in its normal map
get_normal_map(mat) ==
    IF ~mat.dff.export_bump_map THEN <<>>
    ELSE IF mat.principled /\ mat.normalmap_image THEN <<"BumpMapFX">>
    ELSE <<>>

\* material_helper.get_environment_map, lines 137-150
get_environment_map(mat) ==
    IF ~mat.dff.export_env_map THEN <<>> ELSE <<"EnvMapFX">>

\* material_helper.get_specular_material, lines 153-161
get_specular_material(mat) ==
    IF ~mat.dff.export_specular THEN <<>> ELSE <<"SpecularMat">>

\* material_helper.get_reflection_material, lines 164-175
get_reflection_material(mat) ==
    IF ~mat.dff.export_reflection THEN <<>> ELSE <<"ReflMat">>

\* material_helper.get_user_data, lines 178-184
get_user_data(mat) == IF ~mat.user_data THEN <<>> ELSE <<"UserData">>

\* dff.Material.add_plugin(key, plugin): None adds nothing
add_plugin(plugins, key, plugin) ==
    IF plugin = <<>> THEN plugins ELSE (key :> plugin[1]) @@ plugins

\* lines 352-367: the dff.Material of the slot holding b_material, whose data
\* is mat, before the animation is read
new_material(b_material, mat) ==
    [b_material |-> b_material,
     plugins |->
         add_plugin(
             add_plugin(
                 add_plugin(
                     add_plugin(
                         add_plugin(EmptyDict, "bump_map", get_normal_map(mat)),
                         "env_map", get_environment_map(mat)),
                     "spec", get_specular_material(mat)),
                 "refl", get_reflection_material(mat)),
             "udata", get_user_data(mat))]

\* the name of the track, where there is one
anim_name(anim) == IF anim = <<>> THEN <<>> ELSE <<anim[1].name>>

\* lines 369-374: the animation is referenced and appended to the
\* dictionary, and the material to the list
add_material(r, dffmat, anim) ==
    [m |-> IF anim # <<>>
           THEN [r.m EXCEPT !.self.dff.uvanim_dict = Append(@, anim[1])]
           ELSE r.m,
     materials |-> Append(r.materials,
                          [dffmat EXCEPT !.plugins =
                              add_plugin(@, "uv_anim", anim_name(anim))])]

\* generate_material_list, one slot (lines 349-374); r is the machine and the
\* materials built so far
material_slot(r, b_material) ==
    IF b_material = 0 THEN r
    ELSE add_material(r, new_material(b_material, MatTable[b_material]),
                      get_uv_animation(MatTable[b_material]))

RECURSIVE material_slots(_, _, _)
material_slots(r, slots, i) ==
    IF i > Len(slots) THEN r
    ELSE material_slots(material_slot(r, slots[i]), slots, i + 1)

\* generate_material_list(obj)
generate_material_list(m, obj) ==
    material_slots([m |-> m, materials |-> <<>>], scene[obj].mats, 1)

\* ---------------------------------------------------------------- geometry
NumFaces == 1   \* triangles of the mesh, after triangulate_mesh
NumVerts == 2   \* vertices of the mesh: loop.vertex_index is in 0..NumVerts - 1
NumGroups == 3  \* vertex groups of the object; group g is named after bone g
WeightUnits == 2 \* a vertex-group weight w stands for w / WeightUnits, in [0, 1]

\* A UV coordinate is <<x, y>>.  The normal and the UV coordinates (one entry
\* per UV layer of the mesh) a corner may carry:
CornerAttrs ==
    {[normal |-> "n0", uvs |-> << <<0, 0>> >>], [normal |-> "n1", uvs |-> << <<0, 0>> >>],
     [normal |-> "n0", uvs |-> << <<0, 1>> >>]}

\* what lines 582-609 read for one loop of a polygon
Corners == [idx : 0..(NumVerts - 1), attr : CornerAttrs]

\* dff.Geometry(): the lists populate_geometry_with_mesh_data fills
NewGeometry ==
    [vertices |-> <<>>, normals |-> <<>>, uv_layers |-> <<>>, triangles |-> <<>>,
     materials |-> <<>>, extensions |-> EmptyDict, obj |-> 0]

\* dff.SkinPLG() after line 395
NewSkinPLG(num_bones) ==
    [num_bones |-> num_bones, vertex_bone_indices |-> <<>>, vertex_bone_weights |-> <<>>]

\* lines 400-409: the vertex groups that carry the name of a bone, keyed by
\* their index, with the bone's position in armature.data.bones.
\* vertex_groups lists the names of obj.vertex_groups (a bone of Bones, or 0
\* for a name no bone has).
bone_groups_of(vertex_groups) ==
    [g \in {i - 1 : i \in {i \in DOMAIN vertex_groups : vertex_groups[i] \in Bones}}
        |-> vertex_groups[g + 1] - 1]

\* get_skin_plg_and_bone_groups(obj, mesh): skin is <<>> for None
get_skin_plg_and_bone_groups(msh) ==
    IF ~msh.armature THEN [skin |-> <<>>, bone_groups |-> EmptyDict]
    ELSE [skin |-> <<NewSkinPLG(NumBones)>>,
          bone_groups |-> bone_groups_of(msh.vertex_groups)]

\* lines 595-601: the (bone, weight) pairs of a vertex, from group i on
RECURSIVE vertex_bones(_, _, _, _)
vertex_bones(groups, bone_groups, i, bones) ==
    IF i > Len(groups) \/ Len(bones) >= 4 THEN bones
    ELSE vertex_bones(groups, bone_groups, i + 1,
                      IF groups[i].group \in DOMAIN bone_groups /\ groups[i].weight > 0
                      THEN Append(bones, <<bone_groups[groups[i].group], groups[i].weight>>)
                      ELSE bones)

\* lines 603-609: the part of the entry of vertices_list that
\* cleanup_duplicate_verts reads
vertex_entry(corner, tmp_idx) ==
    [idx |-> corner.idx, tmp_idx |-> tmp_idx, normal |-> corner.attr.normal,
     uvs |-> corner.attr.uvs]

\* lines 584-609: the entry of vertices_list for the loop at position c; co
\* is the position of vertex idx, which idx stands for
collect_vertex(msh, bone_groups, c) ==
    [idx     |-> vertex_entry(msh.loops[c], c - 1).idx,
     tmp_idx |-> c - 1,
     co      |-> msh.loops[c].idx,
     normal  |-> vertex_entry(msh.loops[c], c - 1).normal,
     uvs     |-> vertex_entry(msh.loops[c], c - 1).uvs,
     bones   |-> vertex_bones(msh.vertices[msh.loops[c].idx + 1].groups,
                              bone_groups, 1, <<>>)]

\* lines 577-609: vertices_list and faces_list as collected; polygon idx has
\* the loops 3 * idx .. 3 * idx + 2
collect_vertices(msh, bone_groups) ==
    [c \in DOMAIN msh.loops |-> collect_vertex(msh, bone_groups, c)]

collect_faces(polygons) ==
    [f \in DOMAIN polygons |->
        [verts |-> <<3 * (f - 1), 3 * (f - 1) + 1, 3 * (f - 1) + 2>>,
         mat_idx |-> polygons[f].material_index]]

\* a comparison that looks at the source index alone
same_vert_idx_only(vert, vert2) == vert.idx = vert2.idx

\* lines 470-472: the comparison that makes vert2 a duplicate of vert
same_vert(vert, vert2) ==
    vert.idx = vert2.idx /\ vert.normal = vert2.normal /\ vert.uvs = vert2.uvs

\* del verts[j]
DelAt(seq, j) == [p \in 1..(Len(seq) - 1) |-> IF p < j THEN seq[p] ELSE seq[p + 1]]

\* the inner loop with j advanced after a deletion too, so that the vertex
\* that moved into position j is never compared
RECURSIVE dedup_inner_skips(_, _, _)
dedup_inner_skips(r, i, j) ==
    IF j > Len(r.verts) THEN r
    ELSE IF same_vert(r.verts[i], r.verts[j])
    THEN dedup_inner_skips([verts   |-> DelAt(r.verts, j),
                            removed |-> (r.verts[j].tmp_idx :> r.verts[i].tmp_idx)
                                            @@ r.removed],
                           i, j + 1)
    ELSE dedup_inner_skips(r, i, j + 1)

\* lines 464-477, the inner loop from list position j (1-based here); r holds
\* verts and removed_verts
RECURSIVE dedup_inner(_, _, _)
dedup_inner(r, i, j) ==
    IF j > Len(r.verts) THEN r
    ELSE IF same_vert(r.verts[i], r.verts[j])
    THEN dedup_inner([verts   |-> DelAt(r.verts, j),
                      removed |-> (r.verts[j].tmp_idx :> r.verts[i].tmp_idx)
                                      @@ r.removed],
                     i, j)
    ELSE dedup_inner(r, i, j + 1)

\* lines 460-479, the outer loop
RECURSIVE dedup_outer(_, _)
dedup_outer(r, i) ==
    IF i > Len(r.verts) THEN r
    ELSE dedup_outer(dedup_inner(r, i, i + 1), i + 1)

\* find_vert_idx_by_tmp_idx(verts, idx): the first position whose tmp_idx is
\* idx; -1 stands for the None returned when there is none
find_vert_idx_by_tmp_idx(vs, idx) ==
    IF \E p \in DOMAIN vs : vs[p].tmp_idx = idx
    THEN (CHOOSE p \in DOMAIN vs :
              /\ vs[p].tmp_idx = idx
              /\ \A q \in 1..(p - 1) : vs[q].tmp_idx # idx) - 1
    ELSE -1

\* lines 482-488: the indices of the faces are updated
update_faces(r, fs) ==
    [f \in DOMAIN fs |->
        [fs[f] EXCEPT !.verts =
            [k \in DOMAIN fs[f].verts |->
                IF fs[f].verts[k] \in DOMAIN r.removed
                THEN find_vert_idx_by_tmp_idx(r.verts, r.removed[fs[f].verts[k]])
                ELSE find_vert_idx_by_tmp_idx(r.verts, fs[f].verts[k])]]]

faces_updated(r, fs) == [verts |-> r.verts, faces |-> update_faces(r, fs)]

\* cleanup_duplicate_verts(obj, verts, faces): both lists are changed in place
cleanup_duplicate_verts(vs, fs) ==
    faces_updated(dedup_outer([verts |-> vs, removed |-> EmptyDict], 1), fs)

\* lines 501-502: booleans count as 0 and 1
max_uv_layers(msh) ==
    ((IF msh.uv_map2 THEN 1 ELSE 0) + 1) * (IF msh.uv_map1 THEN 1 ELSE 0)

\* line 530: dff.TexCoords(uv.x, 1 - uv.y)
TexCoords(uv) == <<uv[1], 1 - uv[2]>>

\* lines 527-530: the layer is created if it is not there, then appended to
append_uv(uv_layers, index, uv) ==
    [(IF index >= Len(uv_layers) THEN Append(uv_layers, <<>>) ELSE uv_layers)
        EXCEPT ![index + 1] = Append(@, TexCoords(uv))]

\* lines 523-530: the UV coordinates of one vertex, from layer index on
RECURSIVE add_uvs(_, _, _, _)
add_uvs(uv_layers, uvs, index, max) ==
    IF index >= Len(uvs) \/ index >= max THEN uv_layers
    ELSE add_uvs(append_uv(uv_layers, index, uvs[index + 1]), uvs, index + 1, max)

\* lines 535-540: a four-entry array holding entry k of every pair of bones,
\* then zeros
padded(bones, k) == [n \in 1..4 |-> IF n <= Len(bones) THEN bones[n][k] ELSE 0]

\* lines 534-540: the arrays of one vertex are appended to the skin
add_skin(skin, bones) ==
    IF skin = <<>> THEN skin
    ELSE << [skin[1] EXCEPT !.vertex_bone_indices = Append(@, padded(bones, 1)),
                            !.vertex_bone_weights = Append(@, padded(bones, 2))] >>

\* lines 508-540, one vertex; g holds the geometry and the skin
add_vertex(g, vertex, max) ==
    [geometry |-> [g.geometry EXCEPT !.vertices  = Append(@, vertex.co),
                                     !.normals   = Append(@, vertex.normal),
                                     !.uv_layers = add_uvs(@, vertex.uvs, 0, max)],
     skin     |-> add_skin(g.skin, vertex.bones)]

RECURSIVE add_vertices(_, _, _, _)
add_vertices(g, vertices_list, i, max) ==
    IF i > Len(vertices_list) THEN g
    ELSE add_vertices(add_vertex(g, vertices_list[i], max), vertices_list, i + 1, max)

\* lines 542-543: the skin becomes an extension of the geometry
with_skin(g) ==
    IF g.skin = <<>> THEN g.geometry
    ELSE [g.geometry EXCEPT !.extensions = ("skin" :> g.skin[1]) @@ @]

\* populate_geometry_from_vertices_data(vertices_list, skin_plg, mesh, obj, geometry)
populate_geometry_from_vertices_data(vertices_list, skin_plg, msh, geom) ==
    with_skin(add_vertices([geometry |-> geom, skin |-> skin_plg], vertices_list, 1,
                           max_uv_layers(msh)))

\* populate_geometry_from_faces_data(faces_list, geometry): (b, a, material, c)
populate_geometry_from_faces_data(faces_list, geom) ==
    [geom EXCEPT !.triangles =
        @ \o [f \in DOMAIN faces_list |->
                 [b |-> faces_list[f].verts[2], a |-> faces_list[f].verts[1],
                  material |-> faces_list[f].mat_idx, c |-> faces_list[f].verts[3]]]]

\* lines 613-616, on the lists cleanup_duplicate_verts left
emit_geometry(r, skin_plg, msh, geom) ==
    [verts |-> r.verts, faces |-> r.faces,
     geometry |-> populate_geometry_from_faces_data(
                      r.faces,
                      populate_geometry_from_vertices_data(r.verts, skin_plg, msh, geom))]

\* lines 577-616, with what get_skin_plg_and_bone_groups returned
geometry_with_skin(msh, sk, geom) ==
    emit_geometry(cleanup_duplicate_verts(collect_vertices(msh, sk.bone_groups),
                                          collect_faces(msh.polygons)),
                  sk.skin, msh, geom)

\* populate_geometry_with_mesh_data(obj, geometry): msh is the triangulated
\* mesh of obj with the flags of obj.dff; the result holds the two lists as
\* the call leaves them and the geometry filled
populate_geometry_with_mesh_data(msh, geom) ==
    geometry_with_skin(msh, get_skin_plg_and_bone_groups(msh), geom)

\* the lists are replaced by what the call left
Cleaned(r) == verts' = r.verts /\ faces' = r.faces

\* populate_geometry_with_mesh_data on a new dff.Geometry (lines 677-678)
Populated(r) == Cleaned(r) /\ geometry' = r.geometry

PopulateGeometry ==
    /\ gstage = 0
    /\ gstage' = 1
    /\ Populated(populate_geometry_with_mesh_data(mesh, NewGeometry))
    /\ UNCHANGED <<scene, self, pc, ci, ncalls, world, corners, material, uvanim, mesh,
                 dff_material>>

\* cleanup_duplicate_verts called once more on the lists the first call left
CleanupAgain ==
    /\ gstage = 1
    /\ gstage' = 2
    /\ Cleaned(cleanup_duplicate_verts(verts, faces))
    /\ UNCHANGED <<scene, self, pc, ci, ncalls, world, corners, material, uvanim, mesh,
                 geometry, dff_material>>

\* a mesh without polygons
NoMesh ==
    [loops |-> <<>>, polygons |-> <<>>, vertices |-> <<>>, vertex_groups |-> <<>>,
     armature |-> FALSE, uv_map1 |-> TRUE, uv_map2 |-> TRUE]

NoScene == [o \in Objs |-> [type |-> "EMPTY", parent |-> 0, clump |-> 0, coll |-> 1,
                             sel |-> TRUE, mats |-> <<>>, mesh |-> NoMesh]]

\* A mesh of NumFaces triangles over the loops given: no vertex group, no
\* armature modifier, every polygon on slot 0, both UV maps exported.
GeomMesh(loops) ==
    [loops |-> loops,
     polygons |-> [f \in 1..(Len(loops) \div 3) |-> [material_index |-> 0]],
     vertices |-> [v \in 1..NumVerts |-> [groups |-> <<>>]],
     vertex_groups |-> <<>>, armature |-> FALSE, uv_map1 |-> TRUE, uv_map2 |-> TRUE]

\* everything but the mesh, before populate_geometry_with_mesh_data is called
GeomIdle ==
    /\ scene = NoScene
    /\ self = ClassInit
    /\ pc = "idle"
    /\ ci = 0
    /\ ncalls = 0
    /\ world = WorldInit
    /\ verts = <<>>
    /\ faces = <<>>
    /\ gstage = 0
    /\ material = MatTable[4]
    /\ uvanim = <<>>
    /\ geometry = NewGeometry
    /\ dff_material = <<>>

InitGeom ==
    /\ corners \in [1..(3 * NumFaces) -> Corners]
    /\ mesh = GeomMesh(corners)
    /\ GeomIdle

NextGeom == PopulateGeometry \/ CleanupAgain

SpecGeom == InitGeom /\ [][NextGeom]_vars

\* ---------------------------------------------------------------- skinned meshes
\* obj.vertex_groups: group g (index g - 1) carries the name of bone g where
\* the armature has such a bone, and another name (0) otherwise
GroupNames == [g \in 1..NumGroups |-> IF g \in Bones THEN g ELSE 0]

\* vertex.groups for the weights w: w[g] is the weight of the vertex in the
\* group of index g, -1 where the vertex is not in that group
RECURSIVE GroupList(_, _)
GroupList(w, g) ==
    IF g >= NumGroups THEN <<>>
    ELSE (IF w[g] >= 0 THEN <<[group |-> g, weight |-> w[g]]>> ELSE <<>>)
         \o GroupList(w, g + 1)

GroupLists == {GroupList(w, 0) : w \in [0..(NumGroups - 1) -> -1..WeightUnits]}

\* the meshes of the skin properties: one normal and one UV coordinate, with
\* or without an armature modifier; vertex 0 is in any of the groups with any
\* weights, the other vertices in none
SkinCorners == [idx : 0..(NumVerts - 1), attr : {[normal |-> "n0", uvs |-> << <<0, 0>> >>]}]

SkinMeshes(loops) ==
    {[GeomMesh(loops) EXCEPT !.vertices[1].groups = gs, !.vertex_groups = GroupNames,
                             !.armature = a] : gs \in GroupLists, a \in BOOLEAN}

InitSkin ==
    /\ corners \in [1..(3 * NumFaces) -> SkinCorners]
    /\ mesh \in SkinMeshes(corners)
    /\ GeomIdle

SpecSkin == InitSkin /\ [][NextGeom]_vars

\* ---------------------------------------------------------------- UV layers
\* the meshes of the UV-layer properties: one normal, two UV layers, and any
\* setting of obj.dff.uv_map1 and obj.dff.uv_map2
UVCoords == {<<0, 0>>, <<0, 1>>}

UVCorners ==
    [idx : 0..(NumVerts - 1),
     attr : [normal : {"n0"}, uvs : {<<a, b>> : a \in UVCoords, b \in UVCoords}]]

UVMeshes(loops) ==
    {[GeomMesh(loops) EXCEPT !.uv_map1 = m1, !.uv_map2 = m2] : m1 \in BOOLEAN, m2 \in BOOLEAN}

InitUVLayers ==
    /\ corners \in [1..(3 * NumFaces) -> UVCorners]
    /\ mesh \in UVMeshes(corners)
    /\ GeomIdle

SpecUVLayers == InitUVLayers /\ [][NextGeom]_vars

\* ---------------------------------------------------------------- populate_atomic
\* an atomic that takes the position of its geometry as its frame index too
add_atomic_frame_as_geometry(m, geom) ==
    [m EXCEPT !.self.clumps[m.self.current_clump] =
        [@ EXCEPT !.geometry_list = Append(@, geom),
                  !.atomic_list =
                      Append(@, [frame    |-> Len(m.self.clumps[m.self.current_clump]
                                                     .geometry_list),
                                 geometry |-> Len(m.self.clumps[m.self.current_clump]
                                                     .geometry_list)])]]

\* lines 716-726: the geometry and the atomic are appended
add_atomic(m, geom) ==
    [m EXCEPT !.self.clumps[m.self.current_clump] =
        [@ EXCEPT !.geometry_list = Append(@, geom),
                  !.atomic_list =
                      Append(@, [frame    |-> Len(CurrentFrames(m)) - 1,
                                 geometry |-> Len(m.self.clumps[m.self.current_clump]
                                                     .geometry_list)])]]

\* lines 677-678 and 694-726; g is what generate_material_list returned.  The
\* geometry remembers the object it was built for.
add_geometry(g, obj) ==
    add_atomic(g.m,
               [populate_geometry_with_mesh_data(scene[obj].mesh, NewGeometry).geometry
                   EXCEPT !.materials = g.materials, !.obj = obj])

\* lines 681-726, after create_frame returned
atomic_of_frame(m, obj) ==
    IF m.exc THEN m ELSE add_geometry(generate_material_list(m, obj), obj)

\* populate_atomic(obj), lines 673-726.  populate_geometry_with_mesh_data
\* changes the new geometry alone, so it is evaluated where the geometry is
\* appended.
populate_atomic(m, obj) ==
    atomic_of_frame(create_frame(m, obj, scene[obj].parent, FALSE, TRUE, TRUE).m, obj)

\* ---------------------------------------------------------------- export_armature
\* lines 766-767: the first bone's parent is the armature's parent
root_parent(m, obj, frame) ==
    IF scene[obj].parent = 0 THEN frame
    ELSE [frame EXCEPT !.parent = m.self.frames[scene[obj].parent].index,
                       !.pcall  = m.self.frames[scene[obj].parent].call,
                       !.punit  = m.self.frames[scene[obj].parent].unit]

\* lines 762-800, after create_frame(bone, False) returned r
bone_frame(r, obj, index) ==
    IF r.m.exc THEN r.m
    ELSE IF index = 0 /\ scene[obj].parent # 0
                      /\ scene[obj].parent \notin DOMAIN r.m.self.frames
    THEN [r.m EXCEPT !.exc = TRUE]
    ELSE append_frame(r.m, [(IF index = 0 THEN root_parent(r.m, obj, r.frame)
                             ELSE r.frame) EXCEPT !.bone_data = TRUE])

\* lines 759-800, the bone at list position index (its name is index + 1, its
\* parent the bone before it)
armature_bone(m, obj, index) ==
    bone_frame(create_frame(m, index + 1, index, TRUE, FALSE, TRUE), obj, index)

RECURSIVE armature_bones(_, _, _)
armature_bones(m, obj, index) ==
    IF index >= NumBones \/ m.exc THEN m
    ELSE armature_bones(armature_bone(m, obj, index), obj, index + 1)

export_armature(m, obj) == armature_bones(m, obj, 0)

\* ---------------------------------------------------------------- export_objects
\* lines 815-818: the object's clump is created if new, and made current
select_clump(m, key) ==
    [m EXCEPT !.self.current_clump = key,
              !.self.clumps = IF key \in DOMAIN @ THEN @ ELSE (key :> NewClump) @@ @]

\* lines 820-829
dispatch_type(m, obj) ==
    CASE scene[obj].type = "MESH"     -> populate_atomic(m, obj)
      [] scene[obj].type = "EMPTY"    ->
             create_frame(m, obj, scene[obj].parent, FALSE, TRUE, TRUE).m
      [] scene[obj].type = "ARMATURE" -> export_armature(m, obj)

\* lines 813-829, one object of the loop
dispatch(m, obj) ==
    dispatch_type(Log(select_clump(m, scene[obj].clump), "dispatch", <<obj>>), obj)

RECURSIVE dispatch_all(_, _, _)
dispatch_all(m, objects, i) ==
    IF i > Len(objects) \/ m.exc THEN m
    ELSE dispatch_all(dispatch(m, objects[i]), objects, i + 1)

\* sorted(self.clumps.keys())
RECURSIVE SortedKeys(_)
SortedKeys(S) ==
    IF S = {} THEN <<>>
    ELSE <<CHOOSE x \in S : \A y \in S : x <= y>>
         \o SortedKeys(S \ {CHOOSE x \in S : \A y \in S : x <= y})

ClumpsOf(clumps, keys) == [i \in 1..Len(keys) |-> clumps[keys[i]]]

\* lines 831-834: the clumps are appended in key order
append_clumps(m) ==
    Log([m EXCEPT !.self.dff.clumps =
             @ \o ClumpsOf(m.self.clumps, SortedKeys(DOMAIN m.self.clumps))],
        "clumps", <<>>)

\* lines 838-846: the configuration export_col is called with
col_config(m, name) ==
    [file_name |-> IF name # 0 THEN [name |-> name, file |-> ""]
                   ELSE [name |-> 0, file |-> m.self.file_name],
     memory |-> TRUE, collection |-> m.self.collection,
     only_selected |-> m.self.selected, mass_export |-> FALSE,
     unit |-> m.world.unit]

\* lines 848-849: the clump of the container is the object held by
\* self.clumps, so the blob shows in both
attach_collision(m, mem) ==
    IF Len(mem) = 0 THEN m
    ELSE [m EXCEPT !.self.dff.clumps[1].collisions = <<mem>>,
                   !.self.clumps[CHOOSE k \in DOMAIN m.self.clumps :
                                    \A y \in DOMAIN m.self.clumps : k <= y].collisions
                       = <<mem>>]

\* lines 836-849: mem is what export_col returns for this configuration
collision(m, name, mem) ==
    IF ~m.self.export_coll THEN m
    ELSE attach_collision(
             Log([m EXCEPT !.world.col = Append(@, col_config(m, name))],
                 "export_col", <<>>),
             mem)

\* lines 851-854: the path write_file is given, as the pieces it is the
\* concatenation of: self.file_name alone, or "%s/%s" % (self.path, name),
\* to which nothing is appended
file_path(m, name) ==
    IF name = 0
    THEN [dir |-> "", sep |-> "", name |-> 0, suffix |-> "", file |-> m.self.file_name]
    ELSE [dir |-> m.self.path, sep |-> "/", name |-> name, suffix |-> "", file |-> ""]

\* lines 851-854: self.dff.write_file(...)
write_file(m, name) ==
    Log([m EXCEPT !.world.files =
             Append(@, [path |-> file_path(m, name), dff |-> m.self.dff,
                        unit |-> m.world.unit, call |-> m.world.call])],
        "write", <<>>)

\* the steps after the loop taken even when the loop raised
finish_objects_always(m, name, mem) ==
    write_file(collision(append_clumps(m), name, mem), name)

\* lines 831-854, after the loop over the objects
finish_objects(m, name, mem) ==
    IF m.exc THEN m
    ELSE write_file(collision(append_clumps(m), name, mem), name)

\* export_objects(objects, name): name 0 is None
export_objects(m, objects, name, mem) ==
    IF Len(objects) < 1
    THEN Log([m EXCEPT !.self.dff = NewDff], "export_objects", objects)
    ELSE finish_objects(
             dispatch_all(Log([m EXCEPT !.self.dff = NewDff], "export_objects", objects),
                          objects, 1),
             name, mem)

\* ---------------------------------------------------------------- export_dff
\* calculate_parent_depth(obj)
RECURSIVE calculate_parent_depth(_)
calculate_parent_depth(obj) ==
    IF scene[obj].parent = 0 THEN 0
    ELSE 1 + calculate_parent_depth(scene[obj].parent)

\* lines 882-885: the objects of one collection that are taken, in the
\* collection's own order
collect(collection, selected) ==
    LET Taken(obj) == scene[obj].coll = collection /\ (~selected \/ scene[obj].sel)
    IN  SelectSeq([o \in 1..NumObjs |-> o], Taken)

RECURSIVE collect_all(_, _)
collect_all(c, selected) ==
    IF c > NumColls THEN <<>>
    ELSE collect(c, selected) \o collect_all(c + 1, selected)

\* sorted(objects, key=objects.get): a stable sort by parent depth
RECURSIVE sorted_from(_, _)
sorted_from(objects, depth) ==
    IF depth > NumObjs THEN <<>>
    ELSE LET AtDepth(obj) == calculate_parent_depth(obj) = depth
         IN  SelectSeq(objects, AtDepth) \o sorted_from(objects, depth + 1)

sorted(objects) == sorted_from(objects, 0)

Machine(s, w) == [self |-> s, world |-> w, exc |-> FALSE]

\* The module-level export_dff(options) and dff_exporter.export_dff(filename)
\* up to the loop over the collections (lines 865-879 and 903-912)
enter_export(options) ==
    [self EXCEPT !.selected = options.selected, !.mass_export = options.mass_export,
                 !.path = options.directory, !.export_coll = options.export_coll,
                 !.file_name = options.file_name, !.clumps = EmptyDict]

\* a reset that forgets the frame registry
reset_unit_keeps_frames(s, collection) ==
    [s EXCEPT !.bones = EmptyDict, !.clumps = EmptyDict, !.collection = collection]

\* lines 891-895: what the loop does after a grouping is exported
reset_unit(s, collection) ==
    [s EXCEPT !.frames = EmptyDict, !.bones = EmptyDict, !.clumps = EmptyDict,
              !.collection = collection]

Options ==
    [selected : BOOLEAN, mass_export : BOOLEAN, export_coll : BOOLEAN,
     directory : {"dir"}, file_name : {"out.dff"}]

\* what export_col may return: nothing, or a blob
ColBlobs == {<<>>, <<"col">>}

\* ---------------------------------------------------------------- actions
\* the call returns, or ends with the exception raised
EndCall(m) ==
    /\ self' = m.self
    /\ world' = [m.world EXCEPT !.raised = m.exc]
    /\ pc' = "idle"
    /\ ci' = 0

\* lines 891-895 and the next turn of the loop
EndUnit(m) ==
    IF m.exc THEN EndCall(m)
    ELSE /\ self' = reset_unit(m.self, ci)
         /\ world' = m.world
         /\ pc' = IF ci = NumColls THEN "idle" ELSE "batch"
         /\ ci' = IF ci = NumColls THEN 0 ELSE ci + 1

\* lines 865-879 done on s: the loop is entered (mass_export), or all
\* collections are taken, sorted and exported as one unit (lines 897-900)
RunExport(s, w, mem) ==
    IF s.mass_export
    THEN /\ self' = s
         /\ world' = w
         /\ pc' = "batch"
         /\ ci' = 1
    ELSE EndCall(export_objects(Machine(s, w), sorted(collect_all(1, s.selected)),
                                0, mem))

\* A call of export_dff(options).  Without mass_export the whole call is one
\* step; with it the call enters the loop over the collections.
Export(options, mem) ==
    /\ pc = "idle"
    /\ ncalls < MaxCalls
    /\ ncalls' = ncalls + 1
    /\ RunExport(enter_export(options), [WorldInit EXCEPT !.call = ncalls + 1], mem)
    /\ UNCHANGED <<scene, verts, faces, corners, gstage, material, uvanim, mesh, geometry,
                 dff_material>>

\* One turn of export_dff's loop in mass_export mode (lines 881-895): the
\* grouping ci is exported and the registries are reset.  An exception ends
\* the call where it is raised.
BatchUnit(mem) ==
    /\ pc = "batch"
    /\ EndUnit(export_objects(Machine(self, [world EXCEPT !.unit = ci]),
                              sorted(collect(ci, self.selected)), ci, mem))
    /\ UNCHANGED <<scene, ncalls, verts, faces, corners, gstage, material, uvanim, mesh,
                 geometry, dff_material>>

\* ---------------------------------------------------------------- scenes
RECURSIVE Acyclic(_, _, _)
Acyclic(parent, obj, n) ==
    IF parent[obj] = 0 THEN TRUE
    ELSE IF n = 0 THEN FALSE
    ELSE Acyclic(parent, parent[obj], n - 1)

Forests == {p \in [Objs -> {0} \cup Objs] : \A o \in Objs : Acyclic(p, o, NumObjs)}

\* The scenes of the walker: any types, parent links, clump keys, collections
\* and selection; no materials and no polygons.
Scenes ==
    {sc \in [Objs -> [type : Types, parent : {0} \cup Objs, clump : Keys, coll : Colls,
                      sel : BOOLEAN, mats : {<<>>}, mesh : {NoMesh}]] :
        [o \in Objs |-> sc[o].parent] \in Forests}

Idle ==
    /\ self = ClassInit
    /\ pc = "idle"
    /\ ci = 0
    /\ ncalls = 0
    /\ world = WorldInit
    /\ verts = <<>>
    /\ faces = <<>>
    /\ corners = <<>>
    /\ gstage = 0
    /\ material = MatTable[4]
    /\ uvanim = <<>>
    /\ mesh = NoMesh
    /\ geometry = NewGeometry
    /\ dff_material = <<>>

Init == scene \in Scenes /\ Idle

MaxSlots == 2   \* material slots of a mesh

SlotLists == UNION {[1..n -> 0..Len(MatTable)] : n \in 0..MaxSlots}

\* the loops of the meshes of the material reader: the vertices in turn, with
\* one normal and one UV coordinate
MatLoops ==
    [c \in 1..(3 * NumFaces) |->
        [idx |-> (c - 1) % NumVerts, attr |-> [normal |-> "n0", uvs |-> << <<0, 0>> >>]]]

\* polygon.material_index is a position of the slot list (0 where the mesh
\* has no slot)
MatMeshes(slots) ==
    {[GeomMesh(MatLoops) EXCEPT !.polygons = ps] :
        ps \in [1..NumFaces -> [material_index : 0..(IF Len(slots) = 0 THEN 0
                                                     ELSE Len(slots) - 1)]]}

\* The scenes of the material reader: meshes without parents, all in the first
\* collection and in clump 0, with any material slots and any assignment of
\* the polygons to the slots.
MatScenes ==
    [Objs -> UNION {[type : {"MESH"}, parent : {0}, clump : {0}, coll : {1}, sel : {TRUE},
                     mats : {slots}, mesh : MatMeshes(slots)] : slots \in SlotLists}]

InitMat == scene \in MatScenes /\ Idle

Next ==
    \/ \E options \in Options, mem \in ColBlobs : Export(options, mem)
    \/ \E mem \in ColBlobs : BatchUnit(mem)

Spec == Init /\ [][Next]_vars

SpecMat == InitMat /\ [][Next]_vars

\* ---------------------------------------------------------------- UV animation
MaxCurves == 2   \* curves of the material's action
MaxKeys   == 2   \* keyframes of a curve
MaxTime   == 2   \* keyframe times are the frames 0..MaxTime

\* The keyframe_points a curve may hold: Blender keeps the keyframes of one
\* curve in time order, one keyframe per frame.  co is (frame, value).
KeyLists ==
    {ks \in UNION {[1..n -> [co : (0..MaxTime) \X {1}]] : n \in 0..MaxKeys} :
        \A a, b \in DOMAIN ks : a < b => ks[a].co[1] < ks[b].co[1]}

\* "loc" and "scale" are the two data paths of uv_offset, "other" any other
FCurves ==
    [array_index : 0..2, data_path : {"loc", "scale", "other"}, keyframe_points : KeyLists]

\* an action holds one curve per data path and array index
CurveLists ==
    {cs \in UNION {[1..n -> FCurves] : n \in 0..MaxCurves} :
        \A a, b \in DOMAIN cs :
            a # b => cs[a].data_path # cs[b].data_path
                     \/ cs[a].array_index # cs[b].array_index}

\* the materials get_uv_animation is read on: any curves where a track is
\* built from them, and every setting of the conditions that decide it
UVMaterials ==
    [export_animation : {TRUE}, animation_name : {"a"}, principled : {TRUE},
     has_mapping_node : {TRUE}, has_anim_data : {TRUE}, fcurves : CurveLists,
     dff : {NoFX}, normalmap_image : {FALSE}, user_data : {FALSE}]
    \cup
    [export_animation : BOOLEAN, animation_name : {"a"}, principled : BOOLEAN,
     has_mapping_node : BOOLEAN, has_anim_data : BOOLEAN, fcurves : {<<>>},
     dff : {NoFX}, normalmap_image : {FALSE}, user_data : {FALSE}]

\* helper.get_uv_animation() is called on the material (line 369)
ReadUVAnimation ==
    /\ pc = "idle"
    /\ pc' = "uv_read"
    /\ uvanim' = get_uv_animation(material)
    /\ UNCHANGED <<scene, self, ci, ncalls, world, verts, faces, corners, gstage, material,
                 mesh, geometry, dff_material>>

InitUV ==
    /\ scene = NoScene
    /\ self = ClassInit
    /\ pc = "idle"
    /\ ci = 0
    /\ ncalls = 0
    /\ world = WorldInit
    /\ corners = <<>>
    /\ verts = <<>>
    /\ faces = <<>>
    /\ gstage = 0
    /\ material \in UVMaterials
    /\ uvanim = <<>>
    /\ mesh = NoMesh
    /\ geometry = NewGeometry
    /\ dff_material = <<>>

NextUV == ReadUVAnimation

SpecUV == InitUV /\ [][NextUV]_vars

\* ---------------------------------------------------------------- material plugins
\* the materials the plugins are read from: every setting of the flags and
\* of the data the helpers look at
PluginMaterials ==
    [export_animation : BOOLEAN, animation_name : {"a"}, principled : BOOLEAN,
     has_mapping_node : BOOLEAN, has_anim_data : {FALSE}, fcurves : {<<>>},
     dff : [export_bump_map : BOOLEAN, export_env_map : BOOLEAN,
            export_specular : BOOLEAN, export_reflection : BOOLEAN],
     normalmap_image : BOOLEAN, user_data : BOOLEAN]

\* what generate_material_list left: the container and the material list
MaterialsBuilt(r) == self' = r.m.self /\ dff_material' = r.materials

\* generate_material_list(obj) on a mesh whose only slot holds `material`
\* (lines 343-376), inside a unit whose container is there
GenerateMaterial ==
    /\ pc = "idle"
    /\ pc' = "mat_built"
    /\ MaterialsBuilt(add_material([m |-> Machine(self, world), materials |-> <<>>],
                                   new_material(0, material),
                                   get_uv_animation(material)))
    /\ UNCHANGED <<scene, ci, ncalls, world, verts, faces, corners, gstage, material,
                   uvanim, mesh, geometry>>

InitPlugins ==
    /\ scene = NoScene
    /\ self = ClassInit
    /\ pc = "idle"
    /\ ci = 0
    /\ ncalls = 0
    /\ world = WorldInit
    /\ corners = <<>>
    /\ verts = <<>>
    /\ faces = <<>>
    /\ gstage = 0
    /\ material \in PluginMaterials
    /\ uvanim = <<>>
    /\ mesh = NoMesh
    /\ geometry = NewGeometry
    /\ dff_material = <<>>

NextPlugins == GenerateMaterial

SpecPlugins == InitPlugins /\ [][NextPlugins]_vars

\* ---------------------------------------------------------------- properties
Files == {world.files[i] : i \in DOMAIN world.files}

\* the frame lists of the clumps of the files written by the call
WrittenFrameLists ==
    UNION {{f.dff.clumps[c].frame_list : c \in DOMAIN f.dff.clumps} : f \in Files}

Events == world.events

\* the position of the export_objects event that opens the unit of event i
UnitStart(i) ==
    CHOOSE u \in 1..i : /\ Events[u].ev = "export_objects"
                        /\ \A k \in (u + 1)..i : Events[k].ev # "export_objects"

\* the position after the last event of the unit that event u opens
UnitEnd(u) ==
    CHOOSE e \in (u + 1)..(Len(Events) + 1) :
        /\ e = Len(Events) + 1 \/ Events[e].ev = "export_objects"
        /\ \A k \in (u + 1)..(e - 1) : Events[k].ev # "export_objects"

\* C1: in every clump of every file written, each frame's parent index is -1
\* or less than the frame's own position in that clump's frame list.
C1_ParentBeforeFrame ==
    \A fl \in WrittenFrameLists : \A p \in DOMAIN fl :
        fl[p].parent = -1 \/ fl[p].parent < p - 1

\* C2: a node whose parent was never registered does not make the export
\* fail: no call ends with an exception, and every unit that has objects
\* gets its file written.
C2_UnregisteredParentIsRoot ==
    /\ ~world.raised
    /\ \A u \in DOMAIN Events :
           Events[u].ev = "export_objects" /\ Len(Events[u].arg) >= 1
               => \E k \in (u + 1)..(UnitEnd(u) - 1) : Events[k].ev = "write"

\* C4: in mass_export mode the frame registry, the bone registry and the
\* clump map are empty when a grouping after the first is taken up, and in
\* the file of such a grouping every frame was created, and every parent
\* index was registered, while that same grouping was exported.
C4_BatchRegistriesReset ==
    /\ pc = "batch" /\ ci > 1 =>
           /\ DOMAIN self.frames = {}
           /\ DOMAIN self.bones = {}
           /\ DOMAIN self.clumps = {}
    /\ \A f \in Files : f.unit > 1 =>
           \A c \in DOMAIN f.dff.clumps : \A p \in DOMAIN f.dff.clumps[c].frame_list :
               LET frame == f.dff.clumps[c].frame_list[p]
               IN  /\ frame.unit = f.unit /\ frame.call = f.call
                   /\ frame.parent # -1 =>
                          frame.punit = f.unit /\ frame.pcall = f.call

\* C4 witness: the second grouping of a batch wrote a file in which a frame
\* has a parent, after the first grouping wrote a file with frames of its own
C4_Witness ==
    /\ \E f \in Files : f.unit = 1 /\ f.dff.clumps[1].frame_list # <<>>
    /\ \E f \in Files : /\ f.unit = 2
                        /\ \E p \in DOMAIN f.dff.clumps[1].frame_list :
                               f.dff.clumps[1].frame_list[p].parent # -1

\* C6: a file is written only as the last step of its unit, after every
\* object of the unit was dispatched in order, the clumps were appended and
\* (with export_coll) export_col was called; a unit without objects and a
\* unit that raised write nothing.
C6_WriteIsLast ==
    /\ \A i \in DOMAIN Events : Events[i].ev = "write" =>
           LET u    == UnitStart(i)
               objs == Events[u].arg
               n    == Len(objs)
           IN  /\ n >= 1
               /\ i = UnitEnd(u) - 1
               /\ \A k \in 1..n : Events[u + k] = Event("dispatch", <<objs[k]>>)
               /\ Events[u + n + 1].ev = "clumps"
               /\ i = u + n + (IF self.export_coll THEN 3 ELSE 2)
               /\ self.export_coll => Events[u + n + 2].ev = "export_col"
    /\ \A u \in DOMAIN Events :
           Events[u].ev = "export_objects" /\ Len(Events[u].arg) = 0
               => UnitEnd(u) = u + 1
    /\ world.raised =>
           \A k \in DOMAIN Events : k > UnitStart(Len(Events)) => Events[k].ev # "write"
    /\ Len(world.files) = Cardinality({i \in DOMAIN Events : Events[i].ev = "write"})

\* C6 witness: a call wrote a file for a unit of two objects with the collision
\* step, and skipped a unit without objects
C6_Witness ==
    /\ self.export_coll
    /\ \E i \in DOMAIN Events : Events[i].ev = "write" /\ Len(Events[UnitStart(i)].arg) = 2
    /\ \E u \in DOMAIN Events : Events[u].ev = "export_objects" /\ Len(Events[u].arg) = 0

\* C6 second witness state: a unit raised after its first object
C6_RaisedSeen == world.raised /\ Len(Events) >= 2

\* C7: every export_col call made for a grouping of a batch is given that
\* grouping as its scope.
C7_CollisionScopeIsUnit ==
    \A i \in DOMAIN world.col :
        world.col[i].unit # 0 => world.col[i].collection = world.col[i].unit

VertKey(v) == <<v.idx, v.normal, v.uvs>>

\* every surviving vertex still sits at the list position of its corner
Aligned == \A p \in DOMAIN verts : verts[p].tmp_idx = p - 1

\* C3: after cleanup_duplicate_verts the vertex list is no longer than the
\* corner list, and every index of every face is a position of the vertex
\* list that holds a vertex with the source index, normal and UVs of the
\* corner the face referenced.
C3_FacesResolve ==
    gstage = 1 =>
        /\ Len(verts) <= Len(corners)
        /\ Len(faces) * 3 = Len(corners)
        /\ \A f \in DOMAIN faces : \A k \in 1..3 :
               /\ faces[f].verts[k] \in 0..(Len(verts) - 1)
               /\ VertKey(verts[faces[f].verts[k] + 1])
                      = VertKey(vertex_entry(corners[3 * (f - 1) + k], 0))

\* C3 witness: duplicates were removed and a face index was remapped
C3_Witness ==
    /\ gstage = 1
    /\ Len(verts) < Len(corners)
    /\ \E f \in DOMAIN faces : \E k \in 1..3 : faces[f].verts[k] # 3 * (f - 1) + k - 1

FrameTimes(anim) == {anim.frames[i].time : i \in DOMAIN anim.frames}

\* C9: the duration of a returned track is the largest time of its frames.
C9_DurationIsMaxTime ==
    pc = "uv_read" /\ uvanim # <<>> /\ uvanim[1].frames # <<>> =>
        /\ uvanim[1].duration \in FrameTimes(uvanim[1])
        /\ \A t \in FrameTimes(uvanim[1]) : t <= uvanim[1].duration

\* C10: the frame times of a returned track never decrease along the list.
C10_TimesNonDecreasing ==
    pc = "uv_read" /\ uvanim # <<>> =>
        \A i \in 1..(Len(uvanim[1].frames) - 1) :
            uvanim[1].frames[i].time <= uvanim[1].frames[i + 1].time

\* ---------------------------------------------------------------- skin properties
Sum4(w) == w[1] + w[2] + w[3] + w[4]

\* C11: in a skinned geometry the four bone weights of every emitted vertex
\* sum to at most 1 (WeightUnits units).
C11_WeightsSumAtMostOne ==
    gstage >= 1 /\ "skin" \in DOMAIN geometry.extensions =>
        \A v \in DOMAIN geometry.extensions["skin"].vertex_bone_weights :
            Sum4(geometry.extensions["skin"].vertex_bone_weights[v]) <= WeightUnits

\* ---------------------------------------------------------------- UV layer properties
\* the UV coordinates of a corner in the layers that are exported
ExportedUVs(uvs) ==
    SubSeq(uvs, 1, IF Len(uvs) < max_uv_layers(mesh) THEN Len(uvs) ELSE max_uv_layers(mesh))

\* the emitted vertex the corner at position c ends up as
EmittedVertexOf(c) == faces[((c - 1) \div 3) + 1].verts[((c - 1) % 3) + 1]

\* C14: two corners end up as the same emitted vertex exactly when they have
\* the same source index, normal and UV coordinates in the exported layers,
\* and no two emitted vertices agree on source index, normal and all emitted
\* UV coordinates.
C14_SameVertexIffSameData ==
    gstage = 1 =>
        /\ \A c1, c2 \in DOMAIN corners :
               EmittedVertexOf(c1) = EmittedVertexOf(c2) <=>
                   /\ corners[c1].idx = corners[c2].idx
                   /\ corners[c1].attr.normal = corners[c2].attr.normal
                   /\ ExportedUVs(corners[c1].attr.uvs) = ExportedUVs(corners[c2].attr.uvs)
        /\ \A p, q \in DOMAIN geometry.vertices :
               p # q => ~(/\ verts[p].idx = verts[q].idx
                          /\ geometry.normals[p] = geometry.normals[q]
                          /\ \A l \in DOMAIN geometry.uv_layers :
                                 geometry.uv_layers[l][p] = geometry.uv_layers[l][q])

\* ---------------------------------------------------------------- output path
\* C12: the file of a grouping of a batch is written to the directory, "/",
\* the grouping's name and ".dff"; the file of a call without mass_export is
\* written to the file name given.
C12_BatchPathHasSuffix ==
    \A f \in Files :
        /\ f.unit # 0 => f.path = [dir |-> self.path, sep |-> "/", name |-> f.unit,
                                   suffix |-> ".dff", file |-> ""]
        /\ f.unit = 0 => f.path = [dir |-> "", sep |-> "", name |-> 0, suffix |-> "",
                                   file |-> self.file_name]

\* ---------------------------------------------------------------- atomics
\* the position in the event list of the i-th file written by the call
WriteEvent(i) ==
    CHOOSE e \in DOMAIN Events :
        /\ Events[e].ev = "write"
        /\ Cardinality({k \in 1..e : Events[k].ev = "write"}) = i

\* the objects of seq that go to the clump of this key, in order
OfClump(seq, key) ==
    LET InClump(obj) == scene[obj].clump = key
    IN  SelectSeq(seq, InClump)

\* the objects of the unit running last whose dispatch returned: all those
\* dispatched, but the last one where the call ended with an exception
Completed ==
    IF Events = <<>> THEN <<>>
    ELSE LET u == UnitStart(Len(Events))
             d == [k \in 1..Cardinality({e \in (u + 1)..Len(Events) :
                                            Events[e].ev = "dispatch"})
                      |-> Events[u + k].arg[1]]
         IN  IF world.raised THEN SubSeq(d, 1, Len(d) - 1) ELSE d

\* The clumps to look at, each with the objects dispatched to it in order:
\* those of the clump map as the last unit left it, and those of the files.
ClumpViews ==
    {[clump |-> self.clumps[key], objs |-> OfClump(Completed, key)] :
        key \in DOMAIN self.clumps}
    \cup
    UNION {{[clump |-> world.files[i].dff.clumps[j],
             objs  |-> OfClump(Events[UnitStart(WriteEvent(i))].arg,
                               SortedKeys({scene[o].clump :
                                   o \in {Events[UnitStart(WriteEvent(i))].arg[n] :
                                       n \in DOMAIN Events[UnitStart(WriteEvent(i))].arg}})[j])] :
               j \in DOMAIN world.files[i].dff.clumps} : i \in DOMAIN world.files}

\* the frames the objects of a clump make, in order: one per MESH and per
\* EMPTY, one per bone for an ARMATURE
RECURSIVE ExpectedFrames(_)
ExpectedFrames(objs) ==
    IF objs = <<>> THEN <<>>
    ELSE (IF scene[Head(objs)].type = "ARMATURE"
          THEN [b \in 1..NumBones |-> [name |-> b, is_bone |-> TRUE]]
          ELSE <<[name |-> Head(objs), is_bone |-> FALSE]>>)
         \o ExpectedFrames(Tail(objs))

IsMesh(obj) == scene[obj].type = "MESH"

\* C13: in every clump, as a unit leaves it and as it is written, the
\* geometries are those of the MESH objects dispatched to the clump, in
\* order; there is one atomic per geometry, the k-th with geometry index k
\* and with the index of the frame made for the same object; the frames are
\* those of all the objects dispatched to the clump, so that EMPTY and
\* ARMATURE objects add frames only.
C13_AtomicsBindMeshes ==
    \A v \in ClumpViews :
        /\ Len(v.clump.atomic_list) = Len(v.clump.geometry_list)
        /\ [k \in DOMAIN v.clump.geometry_list |-> v.clump.geometry_list[k].obj]
               = SelectSeq(v.objs, IsMesh)
        /\ [p \in DOMAIN v.clump.frame_list |->
                  [name |-> v.clump.frame_list[p].name,
                   is_bone |-> v.clump.frame_list[p].is_bone]] = ExpectedFrames(v.objs)
        /\ \A k \in DOMAIN v.clump.atomic_list :
               /\ v.clump.atomic_list[k].geometry = k - 1
               /\ v.clump.atomic_list[k].frame \in 0..(Len(v.clump.frame_list) - 1)
               /\ v.clump.frame_list[v.clump.atomic_list[k].frame + 1].name
                      = v.clump.geometry_list[k].obj
               /\ ~v.clump.frame_list[v.clump.atomic_list[k].frame + 1].is_bone

\* C13 witness: a written clump holds a mesh whose frame comes after the
\* frames of an armature or an empty, so that the atomic's two indices differ
C13_Witness ==
    \E f \in Files : \E j \in DOMAIN f.dff.clumps :
        \E k \in DOMAIN f.dff.clumps[j].atomic_list :
            f.dff.clumps[j].atomic_list[k].frame # f.dff.clumps[j].atomic_list[k].geometry

\* ---------------------------------------------------------------- plugin properties
Plugins == DOMAIN dff_material[1].plugins

WrittenGeometries ==
    UNION {UNION {{f.dff.clumps[c].geometry_list[g] :
                      g \in DOMAIN f.dff.clumps[c].geometry_list} :
                  c \in DOMAIN f.dff.clumps} : f \in Files}

\* the slot the polygon behind triangle t of the geometry is assigned to
SlotOf(g, t) == scene[g.obj].mats[scene[g.obj].mesh.polygons[t].material_index + 1]

\* C17: in every written geometry of a mesh with material slots, the material
\* index of each triangle whose polygon is assigned to a slot holding a
\* material is a position of the geometry's material list, and the material
\* there is the one built from that slot.
C17_MaterialIndexResolves ==
    \A g \in WrittenGeometries :
        scene[g.obj].mats # <<>> =>
            \A t \in DOMAIN g.triangles :
                SlotOf(g, t) # 0 =>
                    /\ g.triangles[t].material \in 0..(Len(g.materials) - 1)
                    /\ g.materials[g.triangles[t].material + 1].b_material = SlotOf(g, t)

\* ---------------------------------------------------------------- registries
\* C16: whenever a unit can begin (before a call, and before each grouping of
\* a batch) the frame registry and the bone registry are empty, and every
\* parent index of a written frame was registered in the unit and the call
\* the frame was made in.
C16_RegistriesFreshAtUnitStart ==
    /\ pc = "batch" \/ (pc = "idle" /\ ncalls < MaxCalls) =>
           DOMAIN self.frames = {} /\ DOMAIN self.bones = {}
    /\ \A fl \in WrittenFrameLists : \A p \in DOMAIN fl :
           fl[p].parent # -1 => fl[p].pcall = fl[p].call /\ fl[p].punit = fl[p].unit
====
